---- MODULE Spec2Model ----
(***************************************************************************)
(* Model of backend/server.py: the NDVI core (compute_ndvi_from_tif and    *)
(* _guess_red_nir), the heat-map writer (save_heatmap_png) and the         *)
(* analyze_project / update_project request handlers that call them.       *)
(*                                                                         *)
(* Numbers.  A numpy float is a record [t, n, d]: t = "fin" is the exact   *)
(* rational n/d (d > 0, lowest terms), t = "inf" is +inf (n = 1) or -inf   *)
(* (n = -1), t = "nan" is NaN.  Arithmetic follows IEEE-754 for the        *)
(* special values (x/0, inf-inf, inf/inf, NaN propagation).  Finite        *)
(* results are exact but for two float32 roundings: a sum loses a term of  *)
(* at most 1e-6 next to one of at least 32, and an NDVI element is kept to *)
(* six decimals.                                                           *)
(*                                                                         *)
(* Arrays.  A 2-D array is [shape |-> <<h, w>>, pat |-> <<v1 .. vn>>]: the *)
(* element at row i, column j (0-based) is pat[((i*w + j) % n) + 1], so an *)
(* array is its row-major data when n = h*w and a periodic raster          *)
(* otherwise (n = 1: a uniform raster).  This keeps a 4096 x 4096 raster   *)
(* representable.                                                          *)
(*                                                                         *)
(* Text.  A string that the code searches is a sequence of one-character   *)
(* strings, so that lower() and the substring test are computed.           *)
(***************************************************************************)
EXTENDS Integers, Sequences, FiniteSets, TLC

VARIABLES
    tifffile,      \* TRUE iff "import tifffile" succeeded (module global)
    tif,           \* the raster file stored at the first GeoTIFF url's path
    image_urls,    \* db.projects row: image_urls
    data_source,   \* db.projects row: details.data_source
    format_type,   \* db.projects row: details.format_type
    mean_ndvi,     \* db.projects row: mean_ndvi (= ndvi_score)
    healthy_pct,   \* db.projects row: healthy_pct
    ndvi_map_url,  \* db.projects row: ndvi_map_url
    a_pc,          \* analyze_project request: "idle" | "update"
    a_row,         \* analyze_project: the row read by find_one
    a_fault,       \* analyze_project: the failure the environment injected
    a_result,      \* analyze_project: ndvi_result
    a_updates,     \* analyze_project: the $set document being written
    heatmap_png,   \* the image stored at UPLOAD_DIR/ndvi_<project_id>.png
    u_pc,          \* upload_files request r: "ready" | "files" | "done" | "failed"
    u_row,         \* upload_files request r: image_urls of the row read by find_one
    u_left,        \* upload_files request r: the files the loop has yet to take
    u_saved,       \* upload_files request r: saved_urls
    uuid_drawn,    \* the number of uuid4() values drawn so far
    upload_dir     \* the uploads stored in UPLOAD_DIR

upload_vars == <<u_pc, u_row, u_left, u_saved, uuid_drawn, upload_dir>>

vars == <<tifffile, tif, image_urls, data_source, format_type, mean_ndvi,
          healthy_pct, ndvi_map_url, a_pc, a_row, a_fault, a_result, a_updates,
          heatmap_png, u_pc, u_row, u_left, u_saved, uuid_drawn, upload_dir>>

\* ------------------------------------------------------------------ floats

Abs(x) == IF x < 0 THEN -x ELSE x

Sign(x) == IF x < 0 THEN -1 ELSE 1

RECURSIVE GCD(_, _)
GCD(a, b) == IF b = 0 THEN a ELSE GCD(b, a % b)

LCM(a, b) == (a * b) \div GCD(a, b)

NaN == [t |-> "nan", n |-> 0, d |-> 1]

PInf == [t |-> "inf", n |-> 1, d |-> 1]

NInf == [t |-> "inf", n |-> -1, d |-> 1]

\* Python's None where a float is expected.
NoFloat == [t |-> "none", n |-> 0, d |-> 1]

Reduced(n, d, g) == [t |-> "fin", n |-> n \div g, d |-> d \div g]

\* The rational n/d, d > 0, in lowest terms.
Fin(n, d) == Reduced(n, d, GCD(Abs(n), d))

IsFinite(x) == x.t = "fin"

F_neg(a) ==
    IF a.t = "nan" THEN NaN
    ELSE IF a.t = "inf" THEN [a EXCEPT !.n = -a.n]
    ELSE Fin(-a.n, a.d)

\* float32 addition loses b: for |a| >= 32 half an ulp of a exceeds 1.9e-6, so
\* a + b rounds to a when |b| <= 1e-6.
Absorbs(a, b) ==
    /\ Abs(a.n) >= 32 * a.d
    /\ b.d >= 1000000
    /\ Abs(b.n) <= b.d \div 1000000

F_add(a, b) ==
    IF a.t = "nan" \/ b.t = "nan" THEN NaN
    ELSE IF a.t = "inf" /\ b.t = "inf" THEN (IF a.n = b.n THEN a ELSE NaN)
    ELSE IF a.t = "inf" THEN a
    ELSE IF b.t = "inf" THEN b
    ELSE IF Absorbs(a, b) THEN a
    ELSE IF Absorbs(b, a) THEN b
    ELSE LET g == GCD(a.d, b.d)
         IN  Fin(a.n * (b.d \div g) + b.n * (a.d \div g), (a.d \div g) * b.d)

F_sub(a, b) == F_add(a, F_neg(b))

F_mul(a, b) ==
    IF a.t = "nan" \/ b.t = "nan" THEN NaN
    ELSE IF a.t = "inf" \/ b.t = "inf"
         THEN (IF a.n = 0 \/ b.n = 0 THEN NaN
               ELSE IF Sign(a.n) = Sign(b.n) THEN PInf ELSE NInf)
    ELSE LET g1 == GCD(Abs(a.n), b.d)
             g2 == GCD(Abs(b.n), a.d)
         IN  Fin((a.n \div g1) * (b.n \div g2), (a.d \div g2) * (b.d \div g1))

\* IEEE division: 0/0 and inf/inf are NaN, x/0 is an infinity (numpy warns and
\* does not raise).
F_div(a, b) ==
    IF a.t = "nan" \/ b.t = "nan" THEN NaN
    ELSE IF a.t = "inf" /\ b.t = "inf" THEN NaN
    ELSE IF a.t = "inf" THEN (IF Sign(a.n) = Sign(b.n) THEN PInf ELSE NInf)
    ELSE IF b.t = "inf" THEN Fin(0, 1)
    ELSE IF b.n = 0 THEN (IF a.n = 0 THEN NaN ELSE IF a.n > 0 THEN PInf ELSE NInf)
    ELSE LET g1 == GCD(Abs(a.n), Abs(b.n))
             g2 == GCD(a.d, b.d)
         IN  Fin((a.n \div g1) * (b.d \div g2) * Sign(b.n),
                 (a.d \div g2) * (Abs(b.n) \div g1))

\* a < b; every comparison with NaN is False.
F_lt(a, b) ==
    /\ a.t # "nan"
    /\ b.t # "nan"
    /\ \/ a.t = "inf" /\ a.n = -1 /\ ~(b.t = "inf" /\ b.n = -1)
       \/ b.t = "inf" /\ b.n = 1 /\ ~(a.t = "inf" /\ a.n = 1)
       \/ /\ a.t = "fin"
          /\ b.t = "fin"
          /\ LET g == GCD(a.d, b.d) IN a.n * (b.d \div g) < b.n * (a.d \div g)

F_gt(a, b) == F_lt(b, a)

RECURSIVE Pow10(_)
Pow10(k) == IF k = 0 THEN 1 ELSE 10 * Pow10(k - 1)

LongStep(digit, rest, k) == <<digit * Pow10(k - 1) + rest[1], rest[2]>>

RECURSIVE LongDiv(_, _, _)
\* <<floor(r * 10^k / d), (r * 10^k) % d>> for 0 <= r < d, one digit at a time.
LongDiv(r, d, k) ==
    IF k = 0 THEN <<0, r>>
    ELSE LongStep((r * 10) \div d, LongDiv((r * 10) % d, d, k - 1), k)

\* x rounded to k decimals, ties to even; NaN and the infinities stay.
\* q/10^k rounded up by one unit if the remainder rem of the division by d
\* says so, with the sign sgn.
RoundUp(q, rem, d, sgn, k) ==
    Fin(sgn * (IF 2 * rem > d \/ (2 * rem = d /\ q % 2 = 1) THEN q + 1 ELSE q), Pow10(k))

RoundParts(whole, ld, d, sgn, k) == RoundUp(whole * Pow10(k) + ld[1], ld[2], d, sgn, k)

RoundDec(x, k) ==
    IF x.t # "fin" THEN x
    ELSE RoundParts(Abs(x.n) \div x.d, LongDiv(Abs(x.n) % x.d, x.d, k), x.d, Sign(x.n), k)

\* np.round(x, k): rint(x * 10^k) / 10^k.
np_round(x, k) == RoundDec(x, k)

\* The rounding of a float32 result in [-1, 1], modelled as six decimals.
float32(x) == RoundDec(x, 6)

\* np.clip(x, lo, hi) on one element: minimum(maximum(x, lo), hi); NaN stays NaN.
np_clip(x, lo, hi) ==
    IF x.t = "nan" THEN NaN
    ELSE IF F_lt(x, lo) THEN lo
    ELSE IF F_gt(x, hi) THEN hi
    ELSE x

\* ------------------------------------------------------------------ arrays

Size(a) == a.shape[1] * a.shape[2]

\* Element (i, j), 0-based, of a 2-D array.
Pixel(a, i, j) == a.pat[((i * a.shape[2] + j) % Len(a.pat)) + 1]

\* How many elements of the array hold pat[idx].
Count(a, idx) == (Size(a) - idx + Len(a.pat)) \div Len(a.pat)

\* The values that occur in the array.
Elements(a) == {a.pat[i] : i \in {k \in 1..Len(a.pat) : Count(a, k) > 0}}

\* ndarray.max(): NaN if any element is NaN, else the largest element.
np_max(a) ==
    IF NaN \in Elements(a) THEN NaN
    ELSE CHOOSE m \in Elements(a) : \A x \in Elements(a) : ~F_lt(m, x)

\* array / scalar, elementwise.
np_divide_scalar(a, s) ==
    [a EXCEPT !.pat = [i \in 1..Len(a.pat) |-> F_div(a.pat[i], s)] \o <<>>]

\* -------------------------------------------------------------------- text

UpperCase == <<"A", "B", "C", "D", "E", "F", "G", "H", "I", "J", "K", "L", "M",
               "N", "O", "P", "Q", "R", "S", "T", "U", "V", "W", "X", "Y", "Z">>

LowerCase == <<"a", "b", "c", "d", "e", "f", "g", "h", "i", "j", "k", "l", "m",
               "n", "o", "p", "q", "r", "s", "t", "u", "v", "w", "x", "y", "z">>

LowerChar(c) ==
    IF \E i \in 1..Len(UpperCase) : UpperCase[i] = c
    THEN LowerCase[CHOOSE i \in 1..Len(UpperCase) : UpperCase[i] = c]
    ELSE c

\* str.lower()
lower(s) == [i \in 1..Len(s) |-> LowerChar(s[i])]

\* sub in s
Contains(s, sub) ==
    \E i \in 1..(Len(s) - Len(sub) + 1) : SubSeq(s, i, i + Len(sub) - 1) = sub

S_red == <<"r", "e", "d">>

S_nir == <<"n", "i", "r">>

S_near == <<"n", "e", "a", "r">>

\* ------------------------------------------------------- band extraction

\* _guess_red_nir(arr): <<2, 3>> for (H, W, C) with C >= 4, else <<>> (None).
guess_red_nir(arr) ==
    IF Len(arr.shape) = 3
    THEN (IF arr.shape[3] >= 4 THEN <<2, 3>> ELSE <<>>)
    ELSE <<>>

NoBands == [found |-> FALSE, red |-> [shape |-> <<1, 1>>, pat |-> <<NoFloat>>],
            nir |-> [shape |-> <<1, 1>>, pat |-> <<NoFloat>>]]

\* arr[..., idx] of a (H, W, C) array, idx 0-based.
Channel(arr, idx) == [shape |-> <<arr.shape[1], arr.shape[2]>>, pat |-> arr.chans[idx + 1]]

\* Strategy 1 (lines 146-153): multi-sample pixels.
Strategy1(tf) ==
    LET arr   == tf.arr
        guess == guess_red_nir(arr)
    IN  IF Len(arr.shape) = 3 /\ guess # <<>>
        THEN [found |-> TRUE, red |-> Channel(arr, guess[1]), nir |-> Channel(arr, guess[2])]
        ELSE NoBands

\* The label of a page: description.lower() + ' ' + PageName.lower(); a page
\* without the PageName tag has name '' (the AttributeError is swallowed).
PageLabel(p) ==
    lower(p.description) \o <<" ">> \o (IF p.has_name THEN lower(p.pagename) ELSE <<>>)

\* next((i for i, s in labels if ...), None) over the indices whose label
\* matches: <<i>> (0-based) or <<>> (None).
FirstIndex(hits) ==
    IF hits = {} THEN <<>>
    ELSE <<(CHOOSE i \in hits : \A j \in hits : i <= j) - 1>>

IsRedLabel(s) == Contains(s, S_red)

IsNirLabel(s) == Contains(s, S_nir) \/ Contains(s, S_near)

red_idx(tf) ==
    FirstIndex({i \in 1..Len(tf.pages) : IsRedLabel(PageLabel(tf.pages[i]))})

nir_idx(tf) ==
    FirstIndex({i \in 1..Len(tf.pages) : IsNirLabel(PageLabel(tf.pages[i]))})

\* The guard of line 168.
PagedFound(r, n) == r # <<>> /\ n # <<>>

\* Strategy 2 (lines 155-170): one band per page, found by label.
Strategy2(tf) ==
    LET r == red_idx(tf)
        n == nir_idx(tf)
    IN  IF PagedFound(r, n)
        THEN [found |-> TRUE, red |-> tf.pages[r[1] + 1].arr, nir |-> tf.pages[n[1] + 1].arr]
        ELSE NoBands

\* red, nir after both strategies (lines 147-170).
FirstFound(s1, s2) == IF s1.found THEN s1 ELSE s2

Bands(tf) == FirstFound(Strategy1(tf), Strategy2(tf))

\* ------------------------------------------------------------- NDVI field

F_1_5 == Fin(3, 2)

F_100 == Fin(100, 1)

F_10000 == Fin(10000, 1)

F_255 == Fin(255, 1)

EPS == Fin(1, 1000000)

F_one == Fin(1, 1)

F_healthy == Fin(3, 10)

\* Lines 174-177: rescale a band whose maximum exceeds 1.5.
Rescale(a, max) ==
    IF F_gt(max, F_1_5)
    THEN (IF F_gt(max, F_100) THEN np_divide_scalar(a, F_10000)
          ELSE np_divide_scalar(a, F_255))
    ELSE a

Normalize(a) == Rescale(a, np_max(a))

\* numpy broadcasting of two 2-D shapes.
Broadcastable(s1, s2) ==
    \A k \in 1..2 : s1[k] = s2[k] \/ s1[k] = 1 \/ s2[k] = 1

Max2(x, y) == IF x >= y THEN x ELSE y

BroadcastShape(s1, s2) == <<Max2(s1[1], s2[1]), Max2(s1[2], s2[2])>>

\* One element of lines 178-180: clip((nir - red) / (nir + red + 1e-6), -1, 1).
\* Rounding is monotone and -1, 1 are float32 values, so rounding the clipped
\* quotient equals clipping the rounded one.
NdviElement(red, nir) ==
    float32(np_clip(F_div(F_sub(nir, red), F_add(F_add(nir, red), EPS)), F_neg(F_one), F_one))

\* Lines 178-180 on two broadcastable arrays.
\* The element (i, j) of the broadcast of a: a dimension of length 1 repeats.
BroadcastPixel(a, i, j) ==
    Pixel(a, IF a.shape[1] = 1 THEN 0 ELSE i, IF a.shape[2] = 1 THEN 0 ELSE j)

\* Two arrays of one shape: the result repeats with the common period n.
NdviSame(red, nir, n) ==
    [shape |-> red.shape,
     pat   |-> [k \in 1..n |-> NdviElement(red.pat[((k - 1) % Len(red.pat)) + 1],
                                           nir.pat[((k - 1) % Len(nir.pat)) + 1])] \o <<>>]

\* Two arrays of different shapes, broadcast to the shape s.
NdviBroadcast(red, nir, s) ==
    [shape |-> s,
     pat   |-> [k \in 1..(s[1] * s[2]) |->
                   NdviElement(BroadcastPixel(red, (k - 1) \div s[2], (k - 1) % s[2]),
                               BroadcastPixel(nir, (k - 1) \div s[2], (k - 1) % s[2]))]
               \o <<>>]

\* Lines 178-180 on two broadcastable arrays.
NdviField(red, nir) ==
    IF red.shape = nir.shape
    THEN NdviSame(red, nir, LCM(Len(red.pat), Len(nir.pat)))
    ELSE NdviBroadcast(red, nir, BroadcastShape(red.shape, nir.shape))

\* ------------------------------------------------------------- statistics

RECURSIVE CountOver(_, _)
\* The number of elements of a that hold a pattern entry with index in I.
CountOver(a, I) ==
    IF I = {} THEN 0
    ELSE LET i == CHOOSE x \in I : TRUE
         IN  Count(a, i) + CountOver(a, I \ {i})

RECURSIVE WeightedSum(_, _, _)
\* The sum over the pattern indices i in I of (Count(a, i) / total) * a.pat[i].
WeightedSum(a, I, total) ==
    IF I = {} THEN Fin(0, 1)
    ELSE LET i == CHOOSE x \in I : TRUE
         IN  F_add(F_mul(Fin(Count(a, i), total), a.pat[i]),
                   WeightedSum(a, I \ {i}, total))

\* The pattern indices that occur in the array.
Present(a) == {k \in 1..Len(a.pat) : Count(a, k) > 0}

\* np.nanmean(a): the mean of the elements that are not NaN; NaN (with a
\* RuntimeWarning, no exception) when every element is NaN.
np_nanmean(a) ==
    LET I == {k \in Present(a) : a.pat[k].t # "nan"}
    IN  IF I = {} THEN NaN
        ELSE WeightedSum(a, I, CountOver(a, I))

\* Line 186.
MeanNdvi(ndvi) == np_round(np_nanmean(ndvi), 3)

\* Line 185: round((ndvi > 0.3).mean() * 100, 1).
HealthyPct(ndvi) ==
    LET I == {k \in Present(ndvi) : F_gt(ndvi.pat[k], F_healthy)}
    IN  np_round(F_mul(Fin(CountOver(ndvi, I), Size(ndvi)), Fin(100, 1)), 1)

\* ---------------------------------------------------------------- preview

PREVIEW_TARGET == 1024

\* Mutant of Step: the field is never decimated.
Step_NoDecimation(shape) == 1

\* Line 182: max(1, int(max(ndvi.shape) / 1024)).
Step(shape) == Max2(1, Max2(shape[1], shape[2]) \div PREVIEW_TARGET)

\* The length of range(0, n, step).
Strided(n, step) == (n + step - 1) \div step

\* The shape of ndvi[::step, ::step] (line 183).
SmallShape(shape) == <<Strided(shape[1], Step(shape)), Strided(shape[2], Step(shape))>>

\* Lines 188-193: the heat map, by its shape (H', W', 3); its colours are the
\* three-stop ramp of every element and are not part of the model.
Heatmap(ndvi) == [shape |-> SmallShape(ndvi.shape) \o <<3>>]

\* ------------------------------------------------- compute_ndvi_from_tif

NoHeatmap == [shape |-> <<>>]

\* return None
NoneResult == [kind |-> "None", mean_ndvi |-> NoFloat, healthy_pct |-> NoFloat,
               heatmap_rgb |-> NoHeatmap]

\* An exception leaving the place where it was raised.
Raised == [kind |-> "raise", mean_ndvi |-> NoFloat, healthy_pct |-> NoFloat,
           heatmap_rgb |-> NoHeatmap]

\* The failures of np.interp, np.dstack and astype(np.uint8) (lines 190-193)
\* that the environment can cause (a MemoryError, for one).
RenderFaults == {"interp", "dstack", "astype"}

\* Lines 181-194, once the NDVI field is known.
Render(ndvi, fault) ==
    IF fault \in RenderFaults THEN Raised
    ELSE [kind |-> "ok", mean_ndvi |-> MeanNdvi(ndvi),
          healthy_pct |-> HealthyPct(ndvi), heatmap_rgb |-> Heatmap(ndvi)]

\* Lines 178-194 on the normalized bands.
Index(red, nir, fault) ==
    IF ~Broadcastable(red.shape, nir.shape) THEN Raised   \* ValueError, line 178
    ELSE Render(NdviField(red, nir), fault)

\* Lines 171-194, once both strategies have run.
Compute(bands, fault) ==
    IF ~bands.found THEN NoneResult                       \* lines 171-172
    ELSE Index(Normalize(bands.red), Normalize(bands.nir), fault)

\* The body of the try statement (lines 144-194).
TryBody(tf, fault) ==
    IF tf.kind # "tiff" THEN Raised                 \* tifffile.TiffFile raises
    ELSE IF tf.arr.raises THEN Raised               \* tf.asarray() raises
    ELSE Compute(Bands(tf), fault)

\* Mutant of ExceptHandler: the exception is raised again.
ExceptHandler_Reraise(r) == r

\* except Exception: log and return None (lines 195-197).
ExceptHandler(r) == IF r.kind = "raise" THEN NoneResult ELSE r

\* compute_ndvi_from_tif(tif_path), tf being the file at tif_path.
compute_ndvi_from_tif(has_tifffile, tf, fault) ==
    IF ~has_tifffile THEN NoneResult
    ELSE ExceptHandler(TryBody(tf, fault))

\* ------------------------------------------------------- analyze_project

\* Python's None where a string is expected.
PyNone == "<None>"

\* bool(s) of an Optional[str].
Truthy(s) == s # PyNone /\ s # ""

\* _ALLOWED_EXT (line 252).
ALLOWED_EXT == {".jpg", ".jpeg", ".png", ".tif", ".tiff", ".jp2", ".geotiff",
                ".hdf", ".h5", ".nc"}

\* The suffixes upload_files gives to a stored file (lines 267-269).
SAFE_EXT == ALLOWED_EXT \cup {".bin"}

TIF_EXT == {".tif", ".tiff", ".geotiff"}

\* x or y
Or(x, y) == IF Truthy(x) THEN x ELSE y

\* Mutant of classify: the guessed values are assigned without "ds or", "ft or".
classify_Overwrite(ext_seen, ds, ft) ==
    IF ~Truthy(ds) \/ ~Truthy(ft)
    THEN IF ext_seen \cap TIF_EXT # {} THEN <<"Satellite", "GeoTIFF">>
         ELSE IF ext_seen \cap {".hdf", ".h5"} # {} THEN <<"Specialized", "HDF5">>
         ELSE IF ext_seen \cap {".nc"} # {} THEN <<"Specialized", "NetCDF">>
         ELSE IF ext_seen \cap {".jpg", ".jpeg", ".png"} # {} THEN <<"Drone", "JPEG/PNG">>
         ELSE <<ds, ft>>
    ELSE <<ds, ft>>

\* Mutant of classify: the image branch is tested before the NetCDF branch.
classify_ImagesFirst(ext_seen, ds, ft) ==
    IF ~Truthy(ds) \/ ~Truthy(ft)
    THEN IF ext_seen \cap TIF_EXT # {} THEN <<Or(ds, "Satellite"), Or(ft, "GeoTIFF")>>
         ELSE IF ext_seen \cap {".hdf", ".h5"} # {} THEN <<Or(ds, "Specialized"), Or(ft, "HDF5")>>
         ELSE IF ext_seen \cap {".jpg", ".jpeg", ".png"} # {} THEN <<Or(ds, "Drone"), Or(ft, "JPEG/PNG")>>
         ELSE IF ext_seen \cap {".nc"} # {} THEN <<Or(ds, "Specialized"), Or(ft, "NetCDF")>>
         ELSE <<ds, ft>>
    ELSE <<ds, ft>>

\* Lines 293-308: the (data_source, format_type) written to details.
classify(ext_seen, ds, ft) ==
    IF ~Truthy(ds) \/ ~Truthy(ft)
    THEN IF ext_seen \cap TIF_EXT # {} THEN <<Or(ds, "Satellite"), Or(ft, "GeoTIFF")>>
         ELSE IF ext_seen \cap {".hdf", ".h5"} # {} THEN <<Or(ds, "Specialized"), Or(ft, "HDF5")>>
         ELSE IF ext_seen \cap {".nc"} # {} THEN <<Or(ds, "Specialized"), Or(ft, "NetCDF")>>
         ELSE IF ext_seen \cap {".jpg", ".jpeg", ".png"} # {} THEN <<Or(ds, "Drone"), Or(ft, "JPEG/PNG")>>
         ELSE <<ds, ft>>
    ELSE <<ds, ft>>

\* Line 294: the suffixes of the stored files.  A url is [id, suffix]: every url
\* of image_urls was written by upload_files, starts with PREFIX and ends with
\* a lower-case suffix of SAFE_EXT.
ExtSeen(urls) == {urls[i].suffix : i \in 1..Len(urls)}

\* Line 312: the first GeoTIFF url, <<>> for None.
TifUrl(urls) ==
    LET hits == {i \in 1..Len(urls) : urls[i].suffix \in TIF_EXT}
    IN  IF hits = {} THEN <<>>
        ELSE <<urls[CHOOSE i \in hits : \A j \in hits : i <= j]>>

\* Lines 311-316.
NdviResult(has_tifffile, urls, tf, fault) ==
    IF TifUrl(urls) # <<>> /\ tf.kind # "missing"
    THEN compute_ndvi_from_tif(has_tifffile, tf, fault)
    ELSE NoneResult

F_min(x, y) == IF F_lt(y, x) THEN y ELSE x

F_max(x, y) == IF F_gt(y, x) THEN y ELSE x

\* Line 320: max(0.2, min(0.9, 0.3 + 0.1 * img_count)).
Base(urls) == F_max(Fin(1, 5), F_min(Fin(9, 10), F_add(Fin(3, 10), Fin(Len(urls), 10))))

\* Line 321.
NdviScore(res, urls) ==
    np_round(IF res.kind = "ok" THEN res.mean_ndvi ELSE Base(urls), 3)

\* Line 328.
HealthyOut(res, urls) ==
    IF res.kind = "ok" THEN res.healthy_pct
    ELSE np_round(F_min(Fin(95, 1),
                        F_max(Fin(20, 1),
                              F_sub(F_mul(NdviScore(res, urls), Fin(100, 1)), Fin(5, 1)))), 1)

NDVI_PNG_URL == "/api/uploads/ndvi_<project_id>.png"

\* Lines 331-338: TRUE iff save_heatmap_png is called and succeeds.
HeatmapSaved(res, fault) == res.kind = "ok" /\ fault # "png"

\* The failures the environment can cause during one analysis.
Faults == {"none", "png"} \cup RenderFaults

Idle == [image_urls |-> <<>>, data_source |-> PyNone, format_type |-> PyNone,
         ndvi_map_url |-> PyNone]

NoUpdates == [data_source |-> PyNone, format_type |-> PyNone, mean_ndvi |-> NoFloat,
              healthy_pct |-> NoFloat, ndvi_map_url |-> PyNone]

\* Lines 285-355: find_one, then the synchronous work up to the $set document.
AnalyzeFind(CanFail) ==
    /\ a_pc = "idle"
    /\ \E fault \in CanFail :
         LET row == [image_urls |-> image_urls, data_source |-> data_source,
                     format_type |-> format_type, ndvi_map_url |-> ndvi_map_url]
             cls == classify(ExtSeen(image_urls), data_source, format_type)
         IN  /\ a_row' = row
             /\ a_fault' = fault
             /\ a_result' = NdviResult(tifffile, image_urls, tif, fault)
             /\ heatmap_png' = IF HeatmapSaved(a_result', fault) THEN a_result'.heatmap_rgb
                               ELSE heatmap_png
             /\ a_updates' = [data_source  |-> cls[1],
                              format_type  |-> cls[2],
                              mean_ndvi    |-> NdviScore(a_result', image_urls),
                              healthy_pct  |-> HealthyOut(a_result', image_urls),
                              ndvi_map_url |-> IF HeatmapSaved(a_result', fault) THEN NDVI_PNG_URL
                                               ELSE ndvi_map_url]
    /\ a_pc' = "update"
    /\ UNCHANGED <<tifffile, tif, image_urls, data_source, format_type, mean_ndvi,
                   healthy_pct, ndvi_map_url>>
    /\ UNCHANGED upload_vars

\* Lines 356-358: update_one with the $set document; the response is a read.
AnalyzeUpdate ==
    /\ a_pc = "update"
    /\ data_source' = a_updates.data_source
    /\ format_type' = a_updates.format_type
    /\ mean_ndvi' = a_updates.mean_ndvi
    /\ healthy_pct' = a_updates.healthy_pct
    /\ ndvi_map_url' = a_updates.ndvi_map_url
    /\ a_pc' = "idle"
    /\ a_row' = Idle
    /\ a_fault' = "none"
    /\ a_result' = NoneResult
    /\ a_updates' = NoUpdates
    /\ UNCHANGED <<tifffile, tif, image_urls, heatmap_png>>
    /\ UNCHANGED upload_vars

\* The values a client gives to details.data_source / details.format_type.
DataSources == {PyNone, "", "Field survey"}

FormatTypes == {PyNone, "", "JP2"}

\* update_project (lines 229-241) with payload.details set: $set of details.
update_project ==
    /\ \E ds \in DataSources, ft \in FormatTypes :
         /\ data_source' = ds
         /\ format_type' = ft
    /\ UNCHANGED <<tifffile, tif, image_urls, mean_ndvi, healthy_pct, ndvi_map_url,
                   heatmap_png, a_pc, a_row, a_fault, a_result, a_updates>>
    /\ UNCHANGED upload_vars

\* --------------------------------------------------------- upload_files

MaxUploads == 2

MaxFiles == 2

MaxUrls == 2

\* The concurrent upload_files requests on the project.
Requests == 1..MaxUploads

\* An uploaded file: the extension of its name (lower case), whether its
\* content type is in _ALLOWED_MIME, whether it is larger than 25 MB.
UploadFiles ==
    {[ext |-> ".tif", mime_ok |-> TRUE,  too_large |-> FALSE],
     [ext |-> ".png", mime_ok |-> FALSE, too_large |-> FALSE],
     [ext |-> ".exe", mime_ok |-> TRUE,  too_large |-> FALSE],
     [ext |-> ".exe", mime_ok |-> FALSE, too_large |-> FALSE],
     [ext |-> ".tif", mime_ok |-> TRUE,  too_large |-> TRUE]}

\* Lines 262-266: the type check passes.
TypeAllowed(f) == f.mime_ok \/ f.ext \in ALLOWED_EXT

\* Lines 267-268: safe_ext.
SafeExt(f) == IF f.ext \in ALLOWED_EXT THEN f.ext ELSE ".bin"

\* Lines 269, 276: the url of the stored file; uuid4() is a value never drawn
\* before.
SavedUrl(f, drawn) == [id |-> MaxUrls + drawn + 1, suffix |-> SafeExt(f)]

\* Lines 256-260: find_one; the request holds the row and enters the loop over its
\* files.
UploadFind(r) ==
    /\ u_pc[r] = "ready"
    /\ \E n \in 1..MaxFiles : u_left' = [u_left EXCEPT ![r] = n]
    /\ u_row' = [u_row EXCEPT ![r] = image_urls]
    /\ u_saved' = [u_saved EXCEPT ![r] = <<>>]
    /\ u_pc' = [u_pc EXCEPT ![r] = "files"]
    /\ UNCHANGED <<tifffile, tif, image_urls, data_source, format_type, mean_ndvi,
                   healthy_pct, ndvi_map_url, a_pc, a_row, a_fault, a_result,
                   a_updates, heatmap_png, uuid_drawn, upload_dir>>

\* Lines 261-276: one turn of the loop, around "await f.read()": the file is
\* refused (HTTP 400, the request ends without update_one) or stored.
UploadFile(r) ==
    /\ u_pc[r] = "files"
    /\ u_left[r] > 0
    /\ \E f \in UploadFiles :
         IF ~TypeAllowed(f)
         THEN /\ u_pc' = [u_pc EXCEPT ![r] = "failed"]
              /\ UNCHANGED <<u_left, u_saved, uuid_drawn, upload_dir>>
         ELSE IF f.too_large
         THEN /\ u_pc' = [u_pc EXCEPT ![r] = "failed"]
              /\ uuid_drawn' = uuid_drawn + 1
              /\ UNCHANGED <<u_left, u_saved, upload_dir>>
         ELSE /\ uuid_drawn' = uuid_drawn + 1
              /\ upload_dir' = upload_dir \cup {SavedUrl(f, uuid_drawn)}
              /\ u_saved' = [u_saved EXCEPT ![r] = Append(@, SavedUrl(f, uuid_drawn))]
              /\ u_left' = [u_left EXCEPT ![r] = @ - 1]
              /\ UNCHANGED u_pc
    /\ UNCHANGED <<tifffile, tif, image_urls, data_source, format_type, mean_ndvi,
                   healthy_pct, ndvi_map_url, a_pc, a_row, a_fault, a_result,
                   a_updates, heatmap_png, u_row>>

\* Lines 278-280: new_urls from the row read at line 256, update_one, and the
\* response {"uploaded": saved_urls}.
UploadUpdate(r) ==
    /\ u_pc[r] = "files"
    /\ u_left[r] = 0
    /\ image_urls' = u_row[r] \o u_saved[r]
    /\ u_pc' = [u_pc EXCEPT ![r] = "done"]
    /\ UNCHANGED <<tifffile, tif, data_source, format_type, mean_ndvi, healthy_pct,
                   ndvi_map_url, a_pc, a_row, a_fault, a_result, a_updates,
                   heatmap_png, u_row, u_left, u_saved, uuid_drawn, upload_dir>>

\* ------------------------------------------------------------ the inputs

MaxPat == 2

MaxPages == 2

MaxChannels == 5

MaxBlocks == 4

\* The samples a band holds: NaN (the no-data value of a float raster), a
\* negative sample, black, a unit-range sample and a scaled reflectance.
Tiny == Fin(-1, 1000000)

Samples == {NaN, Tiny, Fin(0, 1), Fin(1, 2), Fin(9000, 1)}

\* The bands of up to MaxPat samples; a band with the tiny negative sample
\* holds no sample above 1.5 (its rescaled value would need more than the
\* 32 bits the model's integers have).
Pats ==
    {p \in UNION {[1..n -> Samples] : n \in 1..MaxPat} :
        (\E i \in DOMAIN p : p[i] = Tiny) => (\A i \in DOMAIN p : ~F_gt(p[i], F_1_5))}

D_empty == <<>>

D_red == <<"R", "e", "d", " ", "b", "a", "n", "d">>

D_nir == <<"N", "I", "R">>

D_near == <<"N", "e", "a", "r", " ", "I", "n", "f", "r", "a", "r", "e", "d">>

D_blue == <<"b", "l", "u", "e">>

Descriptions == {D_empty, D_red, D_nir, D_near, D_blue}

\* A page without the PageName tag, and a page named "Nir".
PageNames == {[has |-> FALSE, v |-> <<>>], [has |-> TRUE, v |-> <<"N", "i", "r">>]}

Page(desc, name, arr) ==
    [description |-> desc, has_name |-> name.has, pagename |-> name.v, arr |-> arr]

Untagged == [has |-> FALSE, v |-> <<>>]

SameShape(pages) == \A i \in 1..Len(pages) : pages[i].arr.shape = pages[1].arr.shape

\* tf.asarray() of a readable file: the first series.  Pages of one shape form
\* one series, an array (pages, H, W); otherwise the series is the first page.
SeriesArray(pages) ==
    IF Len(pages) >= 2 /\ SameShape(pages)
    THEN LET n == Len(pages)
             h == pages[1].arr.shape[1]
             w == pages[1].arr.shape[2]
         IN  [raises |-> FALSE, shape |-> <<n, h, w>>,
              chans  |-> [c \in 1..w |->
                             [k \in 1..(n * h) |->
                                 Pixel(pages[((k - 1) \div h) + 1].arr, (k - 1) % h, c - 1)]]]
    ELSE [raises |-> FALSE, shape |-> pages[1].arr.shape, chans |-> <<>>]

Paged(pages) == [kind |-> "tiff", arr |-> SeriesArray(pages), pages |-> pages]

Uniform(shape, v) == [shape |-> shape, pat |-> <<v>>]

\* Two labelled pages of one shape: every band of samples against every
\* uniform band, as the red page and as the NIR page.
ValueContainers ==
    {Paged(<<Page(D_red, Untagged, [shape |-> <<1, MaxPat>>, pat |-> pr]),
             Page(D_nir, Untagged, [shape |-> <<1, MaxPat>>, pat |-> pn])>>) :
        pr \in Pats, pn \in {q \in Pats : Len(q) = 1}}
    \cup
    {Paged(<<Page(D_red, Untagged, [shape |-> <<1, MaxPat>>, pat |-> pr]),
             Page(D_nir, Untagged, [shape |-> <<1, MaxPat>>, pat |-> pn])>>) :
        pr \in {q \in Pats : Len(q) = 1}, pn \in Pats}

\* Up to MaxPages pages of one shape, every combination of labels.
LabelContainers ==
    UNION {{Paged([i \in 1..n |-> Page(ds[i], ns[i], Uniform(<<2, 2>>, Fin(i, 10)))]) :
               ds \in [1..n -> Descriptions], ns \in [1..n -> PageNames]} :
           n \in 1..MaxPages}

SmallShapes == {<<1, 1>>, <<1, 2>>, <<2, 1>>, <<2, 2>>, <<3, 2>>, <<2, 3>>}

\* A red page and a NIR page, every combination of shapes.
ShapeContainers ==
    {Paged(<<Page(D_red, Untagged, [shape |-> s1, pat |-> <<Fin(1, 10), Fin(1, 5)>>]),
             Page(D_nir, Untagged, [shape |-> s2, pat |-> <<Fin(1, 2), Fin(4, 5)>>])>>) :
        s1 \in SmallShapes, s2 \in SmallShapes}

Dims == {1, 2} \cup {k * PREVIEW_TARGET + d : k \in 1..MaxBlocks, d \in {-1, 0, 1}}

\* One page of interleaved 8-bit pixels (H, W, C), channel k holding 40 * k
\* everywhere.
InterleavedContainers ==
    {[kind  |-> "tiff",
      arr   |-> [raises |-> FALSE, shape |-> <<h, w, c>>,
                 chans |-> [k \in 1..c |-> <<Fin(40 * k, 1)>>]],
      pages |-> <<Page(D_empty, Untagged, Uniform(<<h, w>>, Fin(40, 1)))>>] :
        h \in Dims, w \in Dims, c \in 3..MaxChannels}

NoArray == [raises |-> TRUE, shape |-> <<>>, chans |-> <<>>]

\* No file at tif_path.
Missing == [kind |-> "missing", arr |-> NoArray, pages |-> <<>>]

\* A file that is no TIFF container.
Malformed == [kind |-> "malformed", arr |-> NoArray, pages |-> <<>>]

\* A TIFF whose pixel data cannot be decoded.
Undecodable ==
    [kind |-> "tiff", arr |-> NoArray,
     pages |-> <<Page(D_red, Untagged, Uniform(<<2, 2>>, Fin(1, 10))),
                 Page(D_nir, Untagged, Uniform(<<2, 2>>, Fin(1, 5)))>>]

Containers ==
    ValueContainers \cup LabelContainers \cup ShapeContainers
        \cup InterleavedContainers \cup {Missing, Malformed, Undecodable}

UrlLists ==
    UNION {{[i \in 1..n |-> [id |-> i, suffix |-> e[i]]] : e \in [1..n -> SAFE_EXT]} :
           n \in 0..MaxUrls}

\* ------------------------------------------------------- specifications

\* The state after create_project, the uploads in urls and a PATCH of details.
InitWith(Libs, Tifs, Urls, Sources, Formats) ==
    /\ tifffile \in Libs
    /\ tif \in Tifs
    /\ image_urls \in Urls
    /\ data_source \in Sources
    /\ format_type \in Formats
    /\ mean_ndvi = NoFloat
    /\ healthy_pct = NoFloat
    /\ ndvi_map_url = PyNone
    /\ heatmap_png = NoHeatmap
    /\ a_pc = "idle"
    /\ a_row = Idle
    /\ a_fault = "none"
    /\ a_result = NoneResult
    /\ a_updates = NoUpdates
    /\ u_pc = [r \in Requests |-> "ready"]
    /\ u_row = [r \in Requests |-> <<>>]
    /\ u_left = [r \in Requests |-> 0]
    /\ u_saved = [r \in Requests |-> <<>>]
    /\ uuid_drawn = 0
    /\ upload_dir = {image_urls[i] : i \in DOMAIN image_urls}

OneTif == {<<[id |-> 1, suffix |-> ".tif"]>>}

\* A project with one uploaded GeoTIFF, any raster; without tifffile, one of
\* three rasters.
InitNdvi ==
    \/ InitWith({TRUE}, Containers, OneTif, {PyNone}, {PyNone})
    \/ InitWith({FALSE}, {Missing, Malformed, Undecodable}, OneTif, {PyNone}, {PyNone})

NextNdvi == AnalyzeFind(Faults) \/ AnalyzeUpdate

SpecNdvi == InitNdvi /\ [][NextNdvi]_vars

\* A project with any uploads and any details, its raster undecodable.
InitClassify == InitWith({TRUE}, {Undecodable}, UrlLists, DataSources, FormatTypes)

NextClassify == AnalyzeFind({"none"}) \/ AnalyzeUpdate \/ update_project

SpecClassify == InitClassify /\ [][NextClassify]_vars

\* A project without uploads or with one GeoTIFF, and MaxUploads upload
\* requests about to be served.
InitUpload == InitWith({TRUE}, {Undecodable}, {<<>>} \cup OneTif, {PyNone}, {PyNone})

NextUpload == \E r \in Requests : UploadFind(r) \/ UploadFile(r) \/ UploadUpdate(r)

SpecUpload == InitUpload /\ [][NextUpload]_vars

\* --------------------------------------------------------------- claims

\* analyze_project has run compute_ndvi_from_tif and holds ndvi_result.
Analysed == a_pc = "update"

\* The raster opens and decodes.
Readable(tf) == tf.kind = "tiff" /\ ~tf.arr.raises

\* The (normalized) bands the NDVI of the raster is computed from.
RedOf(tf) == Normalize(Bands(tf).red)

NirOf(tf) == Normalize(Bands(tf).nir)

\* The shape of the NDVI field of the raster.
FieldShape(tf) == BroadcastShape(RedOf(tf).shape, NirOf(tf).shape)

\* What the analysis of the raster returns when nothing fails in rendering.
Unfailed(tf) == compute_ndvi_from_tif(TRUE, tf, "none")

\* C1: when the bands of the raster resolve and an analysis without failure
\* returns numbers, an analysis in which preview rendering fails (np.interp,
\* np.dstack, astype or the PNG encoding) still returns the same mean_ndvi and
\* healthy_pct.
C1_RenderFailureKeepsNumbers ==
    (Analysed /\ tifffile /\ a_fault # "none" /\ Unfailed(tif).kind = "ok")
        => /\ a_result.kind = "ok"
           /\ a_result.mean_ndvi = Unfailed(tif).mean_ndvi
           /\ a_result.healthy_pct = Unfailed(tif).healthy_pct

\* C2: what the analysis of a file that is no raster container returns differs
\* from what the analysis of every well-formed container without a red/NIR
\* pair returns.
C2_MalformedDistinct ==
    (Analysed /\ tifffile /\ tif.kind = "malformed")
        => \A c \in Containers :
              (Readable(c) /\ ~Bands(c).found) => Unfailed(c) # a_result

\* C3: no exception leaves compute_ndvi_from_tif; it returns None, or
\* mean_ndvi, healthy_pct and the heat map together; and it returns None when
\* neither strategy yields a red/NIR pair.
C3_NoneOrComplete ==
    Analysed =>
        /\ a_result.kind \in {"None", "ok"}
        /\ a_result.kind = "ok" =>
              /\ a_result.mean_ndvi # NoFloat
              /\ a_result.healthy_pct # NoFloat
              /\ a_result.heatmap_rgb # NoHeatmap
        /\ a_result.kind = "None" => a_result = NoneResult
        /\ (Readable(tif) /\ ~Strategy1(tif).found /\ ~Strategy2(tif).found)
              => a_result.kind = "None"

\* C3, witness: a raster was analysed that decodes and has neither four
\* channels nor labelled pages, and a malformed one was (the two states differ
\* in tif only, so the witness is the first).
C3_Witness ==
    /\ Analysed
    /\ tifffile
    /\ Readable(tif)
    /\ ~Strategy1(tif).found
    /\ ~Strategy2(tif).found
    /\ a_result = NoneResult

\* C4: every element of the NDVI field of two same-shape bands is finite and in
\* [-1, 1].
C4_NdviFiniteInRange ==
    (Analysed /\ tifffile /\ Readable(tif) /\ Bands(tif).found
        /\ Bands(tif).red.shape = Bands(tif).nir.shape)
        => \A x \in Elements(NdviField(RedOf(tif), NirOf(tif))) :
              /\ IsFinite(x)
              /\ ~F_lt(x, F_neg(F_one))
              /\ ~F_gt(x, F_one)

\* C5: the data_source and format_type that analyze_project writes keep every
\* field that was set in the row it read, and classifying them again with the
\* same extensions changes nothing.
C5_NeverOverwrites ==
    Analysed =>
        /\ Truthy(a_row.data_source) => a_updates.data_source = a_row.data_source
        /\ Truthy(a_row.format_type) => a_updates.format_type = a_row.format_type
        /\ classify(ExtSeen(a_row.image_urls), a_updates.data_source, a_updates.format_type)
              = <<a_updates.data_source, a_updates.format_type>>

\* C5, witness: a second analysis of a project, reading a row whose data_source
\* is set and whose format_type is not, fills the format and keeps the source.
C5_Witness ==
    /\ Analysed
    /\ mean_ndvi # NoFloat
    /\ a_row.data_source = "Field survey"
    /\ a_row.format_type = PyNone
    /\ a_updates.data_source = "Field survey"
    /\ a_updates.format_type = "HDF5"

\* C6: with both fields unset, the classification is (Satellite, GeoTIFF) if a
\* .tif/.tiff/.geotiff is present, else (Specialized, HDF5) if a .hdf/.h5 is,
\* else (Specialized, NetCDF) if a .nc is, else (Drone, JPEG/PNG) if a
\* .jpg/.jpeg/.png is, else both fields as they were.
C6_Precedence ==
    (Analysed /\ ~Truthy(a_row.data_source) /\ ~Truthy(a_row.format_type)) =>
        LET ext == {a_row.image_urls[i].suffix : i \in DOMAIN a_row.image_urls}
            out == <<a_updates.data_source, a_updates.format_type>>
        IN  CASE \E e \in ext : e \in {".tif", ".tiff", ".geotiff"} ->
                    out = <<"Satellite", "GeoTIFF">>
              [] \E e \in ext : e \in {".hdf", ".h5"} ->
                    out = <<"Specialized", "HDF5">>
              [] \E e \in ext : e = ".nc" ->
                    out = <<"Specialized", "NetCDF">>
              [] \E e \in ext : e \in {".jpg", ".jpeg", ".png"} ->
                    out = <<"Drone", "JPEG/PNG">>
              [] OTHER ->
                    out = <<a_row.data_source, a_row.format_type>>

\* C6, witness: a project with a .png and a .nc upload and no details is
\* classified (Specialized, NetCDF).
C6_Witness ==
    /\ Analysed
    /\ a_row.data_source = PyNone
    /\ a_row.format_type = PyNone
    /\ {a_row.image_urls[i].suffix : i \in DOMAIN a_row.image_urls} = {".png", ".nc"}
    /\ a_updates.data_source = "Specialized"
    /\ a_updates.format_type = "NetCDF"

\* C7: in the paged strategy, when the red search and the NIR search select the
\* same page, no pair is extracted and the analysis returns no result.
C7_SamePageNoResult ==
    (Analysed /\ tifffile /\ Readable(tif) /\ ~Strategy1(tif).found
        /\ red_idx(tif) # <<>> /\ red_idx(tif) = nir_idx(tif))
        => a_result.kind = "None"

\* C8 as claimed: the preview of every NDVI field is at most 1024 pixels high
\* and wide.
C8_PreviewAtMost1024 ==
    (Analysed /\ a_result.kind = "ok")
        => /\ a_result.heatmap_rgb.shape[1] <= 1024
           /\ a_result.heatmap_rgb.shape[2] <= 1024

\* C8 as amended: the preview of every NDVI field is less than 2048 pixels high
\* and wide; it is at most 1024 when the larger side of the field is at most
\* 1024 or a multiple of 1024, and a 4096 x 4096 field gives 1024 x 1024.
C8_PreviewBelow2048 ==
    (Analysed /\ a_result.kind = "ok") =>
        LET s == FieldShape(tif)
            m == IF s[1] >= s[2] THEN s[1] ELSE s[2]
            p == a_result.heatmap_rgb.shape
        IN  /\ p[1] < 2048
            /\ p[2] < 2048
            /\ p[3] = 3
            /\ (m <= 1024 \/ m % 1024 = 0) => (p[1] <= 1024 /\ p[2] <= 1024)
            /\ s = <<4096, 4096>> => p = <<1024, 1024, 3>>

\* C8, witness: a 4096 x 4096 field was analysed and its preview stored.
C8_Witness ==
    /\ Analysed
    /\ a_result.kind = "ok"
    /\ FieldShape(tif) = <<4096, 4096>>
    /\ a_result.heatmap_rgb.shape = <<1024, 1024, 3>>
    /\ heatmap_png = a_result.heatmap_rgb

\* C9: every mean_ndvi that is returned is finite and in [-1, 1] (a field
\* whose elements are all non-finite returns no numbers).
C9_MeanFinite ==
    (Analysed /\ a_result.kind = "ok")
        => /\ IsFinite(a_result.mean_ndvi)
           /\ ~F_lt(a_result.mean_ndvi, F_neg(F_one))
           /\ ~F_gt(a_result.mean_ndvi, F_one)

\* C10: whenever the analysis returns a result, the red and NIR arrays it was
\* computed from have the same height and width.
C10_SameShape ==
    (Analysed /\ a_result.kind = "ok")
        => Bands(tif).red.shape = Bands(tif).nir.shape

\* C11: once every concurrent upload_files request has completed successfully,
\* image_urls of the project holds every url that a request returned in its
\* "uploaded" response.
C11_NoUploadLost ==
    (\A r \in Requests : u_pc[r] = "done")
        => \A r \in Requests : \A i \in DOMAIN u_saved[r] :
              \E j \in DOMAIN image_urls : image_urls[j] = u_saved[r][i]

====
